---- MODULE Spec2Model ----
(***************************************************************************)
(* Model of the uefi-exfat driver: the boot sector and FAT entry           *)
(* conversions of src/exfat.rs and the volume and file handles of          *)
(* src/protocol.rs.                                                        *)
(*                                                                         *)
(* Fixed-width integers are kept at their real width.  A u32 is a sequence *)
(* of 4 bytes and a u64 a sequence of 8 bytes, least significant byte      *)
(* first, so that 0xFFFFFFF7 is <<247, 255, 255, 255>>; the arithmetic     *)
(* below works on such sequences and reports the overflow that Rust either *)
(* traps (overflow checks on) or wraps (overflow checks off).              *)
(***************************************************************************)
EXTENDS Integers, Sequences, FiniteSets

VARIABLES
    overflow_checks, \* build: TRUE when arithmetic overflow panics (debug), FALSE when it wraps
    usize_bytes,     \* build: width of usize in bytes (4 on 32-bit targets, 8 on 64-bit ones)
    sector,          \* the boot sector handed to ExFatVolume::new
    volume,          \* the ExFatVolume, <<>> before construction, <<v>> after
    vret,            \* last call made on the volume API and what it returned
    file,            \* the ExFatFile handle, <<>> before construction, <<f>> after
    fret,            \* last call made on the file handle and what it returned
    calls,           \* number of read and seek calls made on the file handle
    raw,             \* a raw 32-bit FAT slot held by the caller
    entry,           \* a FatEntry value held by the caller
    fat_last         \* the last two FatEntry conversions made, oldest first ("init" for none)

vars == <<overflow_checks, usize_bytes, sector, volume, vret, file, fret, calls,
          raw, entry, fat_last>>

---------------------------------------------------------------------------
(* Bounds of the model *)

\* buffers passed to read have 0..MaxBufLen bytes
MaxBufLen == 3
\* at most MaxCalls read and seek calls are made on a handle
MaxCalls == 4

---------------------------------------------------------------------------
(* Fixed-width unsigned integers as little-endian byte sequences *)

U32_BYTES == 4
U64_BYTES == 8

RECURSIVE Zeros(_)
Zeros(n) == IF n = 0 THEN <<>> ELSE <<0>> \o Zeros(n - 1)

\* the n-byte representation of a natural number below 2^31
RECURSIVE Bytes(_, _)
Bytes(x, n) == IF n = 0 THEN <<>> ELSE <<x % 256>> \o Bytes(x \div 256, n - 1)

U32(x) == Bytes(x, U32_BYTES)
U64(x) == Bytes(x, U64_BYTES)

\* `as` to a wider type: zero extension
Extend(a, n) == a \o Zeros(n - Len(a))
\* `as` to a narrower type: the low n bytes
Truncate(a, n) == SubSeq(a, 1, n)
\* `as` between unsigned types of any two widths
CastTo(a, n) == IF n >= Len(a) THEN Extend(a, n) ELSE Truncate(a, n)

IsZero(a) == \A i \in 1..Len(a) : a[i] = 0

\* a < b for two values of the same width
RECURSIVE Lt(_, _)
Lt(a, b) ==
    LET n == Len(a) IN
    IF n = 0 THEN FALSE
    ELSE IF a[n] # b[n] THEN a[n] < b[n]
    ELSE Lt(SubSeq(a, 1, n - 1), SubSeq(b, 1, n - 1))

Le(a, b) == a = b \/ Lt(a, b)
Gt(a, b) == Lt(b, a)
Ge(a, b) == Le(b, a)
Min(a, b) == IF Le(a, b) THEN a ELSE b

\* a + b + c over Len(a) bytes, the carry out as one more byte
RECURSIVE AddCarry(_, _, _)
AddCarry(a, b, c) ==
    IF a = <<>> THEN <<c>>
    ELSE LET s == a[1] + b[1] + c
         IN  <<s % 256>> \o AddCarry(Tail(a), Tail(b), s \div 256)

\* a - b - c over Len(a) bytes, the borrow out as one more byte
RECURSIVE SubBorrow(_, _, _)
SubBorrow(a, b, c) ==
    IF a = <<>> THEN <<c>>
    ELSE LET d == a[1] - b[1] - c
         IN  <<(d + 256) % 256>> \o SubBorrow(Tail(a), Tail(b), IF d < 0 THEN 1 ELSE 0)

\* a * d + c for one byte d, over Len(a) + 1 bytes
RECURSIVE MulByte(_, _, _)
MulByte(a, d, c) ==
    IF a = <<>> THEN <<c>>
    ELSE LET p == a[1] * d + c
         IN  <<p % 256>> \o MulByte(Tail(a), d, p \div 256)

\* the full product a * b, over Len(a) + Len(b) bytes
RECURSIVE MulFull(_, _)
MulFull(a, b) ==
    IF b = <<>> THEN Zeros(Len(a))
    ELSE LET n    == Len(a) + Len(b)
             low  == Extend(MulByte(a, b[1], 0), n)
             high == <<0>> \o MulFull(a, Tail(b))
         IN  Truncate(AddCarry(low, high, 0), n)

\* Rust's +, - and * on two values of one width: the wrapped value and
\* whether the exact result did not fit
Add(a, b) ==
    LET r == AddCarry(a, b, 0)
    IN  [val |-> Truncate(r, Len(a)), ovf |-> r[Len(a) + 1] # 0]

Sub(a, b) ==
    LET r == SubBorrow(a, b, 0)
    IN  [val |-> Truncate(r, Len(a)), ovf |-> r[Len(a) + 1] # 0]

Mul(a, b) ==
    LET r == MulFull(a, b)
    IN  [val |-> Truncate(r, Len(a)),
         ovf |-> ~IsZero(SubSeq(r, Len(a) + 1, Len(r)))]

\* 2^k for k < 8
RECURSIVE Pow2(_)
Pow2(k) == IF k = 0 THEN 1 ELSE 2 * Pow2(k - 1)

\* Rust's `1 << shift` on u32 with a u8 shift count: the count is taken
\* modulo 32 when it does not trap, and a count of 32 or more is an overflow
Shl1(shift) ==
    LET s == shift % (8 * U32_BYTES)
    IN  [val |-> Zeros(s \div 8) \o <<Pow2(s % 8)>> \o Zeros(U32_BYTES - 1 - (s \div 8)),
         ovf |-> shift >= 8 * U32_BYTES]

\* What an expression evaluates to: a value, or a panic.  An overflowing
\* operation panics when the build has overflow checks and wraps otherwise.
Panic == [kind |-> "panic", val |-> <<>>]
Value(v) == [kind |-> "ok", val |-> v]
Checked(r) == IF r.ovf /\ overflow_checks THEN Panic ELSE Value(r.val)

\* a 32-bit literal written as its four bytes, most significant first
Hex32(b3, b2, b1, b0) == <<b0, b1, b2, b3>>

---------------------------------------------------------------------------
(* exfat.rs: FatEntry *)

Free == [tag |-> "Free", cluster |-> <<>>]
Bad == [tag |-> "Bad", cluster |-> <<>>]
EndOfChain == [tag |-> "EndOfChain", cluster |-> <<>>]
Next(c) == [tag |-> "Next", cluster |-> c]

\* from_u32 without its arm for 0xFFFFFFF7: the end-of-chain range starts one
\* value early and swallows the bad-cluster marker
from_u32_no_bad_arm(value) ==
    IF value = Hex32(0, 0, 0, 0) THEN Free
    ELSE IF Ge(value, Hex32(255, 255, 255, 247)) /\ Le(value, Hex32(255, 255, 255, 255))
         THEN EndOfChain
    ELSE Next(value)

from_u32(value) ==
    IF value = Hex32(0, 0, 0, 0) THEN Free
    ELSE IF value = Hex32(255, 255, 255, 247) THEN Bad
    ELSE IF Ge(value, Hex32(255, 255, 255, 248)) /\ Le(value, Hex32(255, 255, 255, 255))
         THEN EndOfChain
    ELSE Next(value)

\* to_u32 with the markers of Bad and EndOfChain exchanged
to_u32_markers_swapped(e) ==
    CASE e.tag = "Free" -> Hex32(0, 0, 0, 0)
      [] e.tag = "Next" -> e.cluster
      [] e.tag = "Bad" -> Hex32(255, 255, 255, 255)
      [] e.tag = "EndOfChain" -> Hex32(255, 255, 255, 247)

to_u32(e) ==
    CASE e.tag = "Free" -> Hex32(0, 0, 0, 0)
      [] e.tag = "Next" -> e.cluster
      [] e.tag = "Bad" -> Hex32(255, 255, 255, 247)
      [] e.tag = "EndOfChain" -> Hex32(255, 255, 255, 255)

\* the raw values and entries the conversions are tried on
RawValues ==
    { U32(0), U32(1), U32(2), U32(3), Hex32(0, 1, 35, 69), Hex32(127, 255, 255, 255),
      Hex32(128, 0, 0, 0), Hex32(255, 255, 255, 246), Hex32(255, 255, 255, 247),
      Hex32(255, 255, 255, 248), Hex32(255, 255, 255, 249), Hex32(255, 255, 255, 254),
      Hex32(255, 255, 255, 255) }

FatEntries == {Free, Bad, EndOfChain} \cup {Next(c) : c \in RawValues}

\* FatEntry::from_u32 applied to the raw value held
FromU32 ==
    /\ entry' = from_u32(raw)
    /\ fat_last' = <<fat_last[2], "from_u32">>
    /\ UNCHANGED <<overflow_checks, usize_bytes, sector, volume, vret, file, fret, calls, raw>>

\* FatEntry::to_u32 applied to the entry held
ToU32 ==
    /\ raw' = to_u32(entry)
    /\ fat_last' = <<fat_last[2], "to_u32">>
    /\ UNCHANGED <<overflow_checks, usize_bytes, sector, volume, vret, file, fret, calls, entry>>

---------------------------------------------------------------------------
(* exfat.rs: BootSector *)

\* b"EXFAT   "
EXFAT_NAME == <<69, 88, 70, 65, 84, 32, 32, 32>>
\* 0xAA55
BOOT_SIGNATURE == 43605

\* is_valid without the comparison of fs_name
is_valid_signature_only(bs) == bs.boot_signature = BOOT_SIGNATURE

is_valid(bs) == bs.boot_signature = BOOT_SIGNATURE /\ bs.fs_name = EXFAT_NAME

bytes_per_sector(bs) == Checked(Shl1(bs.bytes_per_sector_shift))

sectors_per_cluster(bs) == Checked(Shl1(bs.sectors_per_cluster_shift))

bytes_per_cluster(bs) ==
    LET a == bytes_per_sector(bs)
        b == sectors_per_cluster(bs)
    IN  IF a.kind = "panic" \/ b.kind = "panic" THEN Panic
        ELSE Checked(Mul(a.val, b.val))

\* the boot sectors tried: the two validated fields, right and wrong, and the
\* geometry fields the volume reads, in and out of the ranges exFAT allows
Signatures == {BOOT_SIGNATURE, 21930, 0}
FsNames == {EXFAT_NAME, <<78, 84, 70, 83, 32, 32, 32, 32>>, <<69, 88, 70, 65, 84, 32, 32, 0>>}
HeapOffsets == {U32(0), U32(1024), Hex32(255, 255, 255, 255)}
ClusterCounts == {U32(0), U32(4)}
Shifts == {0, 3, 9, 16, 31, 32, 255}

BootSectors ==
    [ fs_name : FsNames,
      cluster_heap_offset : HeapOffsets,
      cluster_count : ClusterCounts,
      root_dir_cluster : {U32(4)},
      bytes_per_sector_shift : Shifts,
      sectors_per_cluster_shift : Shifts,
      boot_signature : Signatures ]

---------------------------------------------------------------------------
(* protocol.rs: ExFatVolume *)

\* the record of a call: the operation, its argument, how it ended ("ok",
\* "err" or "panic"), the status of an error and the value returned
Ret(op, arg, kind, status, val) ==
    [op |-> op, arg |-> arg, kind |-> kind, status |-> status, val |-> val]
NoCall == Ret("none", <<>>, "ok", "", <<>>)
RetOf(op, arg, r) == Ret(op, arg, r.kind, "", r.val)

\* a panic ends the program: the panic handler never returns
Running == vret.kind # "panic" /\ fret.kind # "panic"

cluster_to_lba(v, cluster) ==
    LET cluster_heap_offset == Extend(v.boot_sector.cluster_heap_offset, U64_BYTES)
        spc == sectors_per_cluster(v.boot_sector)
    IN  IF spc.kind = "panic" THEN Panic
        ELSE LET d == Checked(Sub(cluster, U32(2)))
             IN  IF d.kind = "panic" THEN Panic
                 ELSE LET m == Checked(Mul(Extend(d.val, U64_BYTES), Extend(spc.val, U64_BYTES)))
                      IN  IF m.kind = "panic" THEN Panic
                          ELSE Checked(Add(cluster_heap_offset, m.val))

BlockDevices == {0, 1}
Clusters == {U32(0), U32(1), U32(2), U32(3), U32(6), Hex32(255, 255, 255, 254),
             Hex32(255, 255, 255, 255)}

VolumeNew(block_device) ==
    /\ Running
    /\ volume = <<>>
    /\ IF ~is_valid(sector)
       THEN /\ vret' = Ret("new", <<>>, "err", "VOLUME_CORRUPTED", <<>>)
            /\ UNCHANGED volume
       ELSE /\ volume' = <<[boot_sector |-> sector, block_device |-> block_device]>>
            /\ vret' = Ret("new", <<>>, "ok", "", <<>>)
    /\ UNCHANGED <<overflow_checks, usize_bytes, sector, file, fret, calls, raw, entry, fat_last>>

VolumeBytesPerSector ==
    /\ Running
    /\ volume # <<>>
    /\ vret' = RetOf("bytes_per_sector", <<>>, bytes_per_sector(volume[1].boot_sector))
    /\ UNCHANGED <<overflow_checks, usize_bytes, sector, volume, file, fret, calls, raw, entry, fat_last>>

VolumeSectorsPerCluster ==
    /\ Running
    /\ volume # <<>>
    /\ vret' = RetOf("sectors_per_cluster", <<>>, sectors_per_cluster(volume[1].boot_sector))
    /\ UNCHANGED <<overflow_checks, usize_bytes, sector, volume, file, fret, calls, raw, entry, fat_last>>

VolumeBytesPerCluster ==
    /\ Running
    /\ volume # <<>>
    /\ vret' = RetOf("bytes_per_cluster", <<>>, bytes_per_cluster(volume[1].boot_sector))
    /\ UNCHANGED <<overflow_checks, usize_bytes, sector, volume, file, fret, calls, raw, entry, fat_last>>

VolumeClusterToLba(cluster) ==
    /\ Running
    /\ volume # <<>>
    /\ vret' = RetOf("cluster_to_lba", cluster, cluster_to_lba(volume[1], cluster))
    /\ UNCHANGED <<overflow_checks, usize_bytes, sector, volume, file, fret, calls, raw, entry, fat_last>>

VolumeRootDirCluster ==
    /\ Running
    /\ volume # <<>>
    /\ vret' = Ret("root_dir_cluster", <<>>, "ok", "", volume[1].boot_sector.root_dir_cluster)
    /\ UNCHANGED <<overflow_checks, usize_bytes, sector, volume, file, fret, calls, raw, entry, fat_last>>

---------------------------------------------------------------------------
(* protocol.rs: ExFatFile *)

\* a 64-bit literal written as its two 32-bit halves, high half first
Hex64(hi, lo) == lo \o hi

FileNames == {"a.txt"}
\* file_attributes::ARCHIVE and file_attributes::DIRECTORY
FileAttributes == {32, 16}
FileSizes ==
    { U64(0), U64(1), U64(3), Hex64(U32(1), U32(0)), Hex64(U32(1), U32(2)),
      Hex64(Hex32(255, 255, 255, 255), Hex32(255, 255, 255, 255)) }
SeekTargets ==
    { U64(0), U64(1), U64(2), U64(4), Hex64(U32(1), U32(0)), Hex64(U32(1), U32(1)),
      Hex64(U32(1), U32(3)), Hex64(Hex32(255, 255, 255, 255), Hex32(255, 255, 255, 255)) }
BufferLens == 0..MaxBufLen

\* usize values of this build
Usize(n) == Bytes(n, usize_bytes)

FileNew(name, attributes, first_cluster, size, vol) ==
    /\ Running
    /\ file = <<>>
    /\ file' = << [ name |-> name, attributes |-> attributes,
                    first_cluster |-> first_cluster, size |-> size,
                    position |-> U64(0), volume |-> vol ] >>
    /\ fret' = Ret("new", <<>>, "ok", "", <<>>)
    /\ UNCHANGED <<overflow_checks, usize_bytes, sector, volume, vret, calls, raw, entry, fat_last>>

\* read that reports an error, not a count of 0, at the end of the file
read_error_at_end(f, len) ==
    IF Ge(f.position, f.size)
    THEN [file |-> f, ret |-> Ret("read", len, "err", "END_OF_FILE", <<>>)]
    ELSE LET remaining == CastTo(Sub(f.size, f.position).val, usize_bytes)
             to_read   == Min(len, remaining)
         IN  [file |-> [f EXCEPT !.position = Add(f.position, CastTo(to_read, U64_BYTES)).val],
              ret  |-> Ret("read", len, "ok", "", to_read)]

\* ExFatFile::read on handle f with a buffer of len bytes: the handle and the
\* result after the call
read(f, len) ==
    IF Ge(f.position, f.size)
    THEN [file |-> f, ret |-> Ret("read", len, "ok", "", Usize(0))]
    ELSE LET d == Checked(Sub(f.size, f.position))
         IN  IF d.kind = "panic"
             THEN [file |-> f, ret |-> Ret("read", len, "panic", "", <<>>)]
             ELSE LET remaining == CastTo(d.val, usize_bytes)
                      to_read   == Min(len, remaining)
                      p         == Checked(Add(f.position, CastTo(to_read, U64_BYTES)))
                  IN  IF p.kind = "panic"
                      THEN [file |-> f, ret |-> Ret("read", len, "panic", "", <<>>)]
                      ELSE [file |-> [f EXCEPT !.position = p.val],
                            ret  |-> Ret("read", len, "ok", "", to_read)]

\* seek that refuses the target position == size as well
seek_refuses_size(f, position) ==
    IF Ge(position, f.size)
    THEN [file |-> f, ret |-> Ret("seek", position, "err", "INVALID_PARAMETER", <<>>)]
    ELSE [file |-> [f EXCEPT !.position = position],
          ret  |-> Ret("seek", position, "ok", "", <<>>)]

\* seek without the comparison against size
seek_unchecked(f, position) ==
    [file |-> [f EXCEPT !.position = position],
     ret  |-> Ret("seek", position, "ok", "", <<>>)]

\* ExFatFile::seek on handle f to position
seek(f, position) ==
    IF Gt(position, f.size)
    THEN [file |-> f, ret |-> Ret("seek", position, "err", "INVALID_PARAMETER", <<>>)]
    ELSE [file |-> [f EXCEPT !.position = position],
          ret  |-> Ret("seek", position, "ok", "", <<>>)]

FileRead(len) ==
    /\ Running
    /\ file # <<>>
    /\ calls < MaxCalls
    /\ LET r == read(file[1], Usize(len))
       IN  file' = <<r.file>> /\ fret' = r.ret
    /\ calls' = calls + 1
    /\ UNCHANGED <<overflow_checks, usize_bytes, sector, volume, vret, raw, entry, fat_last>>

FileSeek(position) ==
    /\ Running
    /\ file # <<>>
    /\ calls < MaxCalls
    /\ LET r == seek(file[1], position)
       IN  file' = <<r.file>> /\ fret' = r.ret
    /\ calls' = calls + 1
    /\ UNCHANGED <<overflow_checks, usize_bytes, sector, volume, vret, raw, entry, fat_last>>

---------------------------------------------------------------------------
(* Specifications *)

\* the build the crate is compiled for
InitBuild ==
    /\ overflow_checks \in BOOLEAN
    /\ usize_bytes \in {U32_BYTES, U64_BYTES}

NoSector ==
    [ fs_name |-> EXFAT_NAME, cluster_heap_offset |-> U32(0), cluster_count |-> U32(0),
      root_dir_cluster |-> U32(0), bytes_per_sector_shift |-> 0,
      sectors_per_cluster_shift |-> 0, boot_signature |-> 0 ]

IdleVolume == sector = NoSector /\ volume = <<>> /\ vret = NoCall
IdleFile == file = <<>> /\ fret = NoCall /\ calls = 0
IdleFat == raw = U32(0) /\ entry = Free /\ fat_last = <<"init", "init">>

\* the FAT entry conversions, on every raw value and entry tried
InitFat ==
    /\ InitBuild /\ IdleVolume /\ IdleFile
    /\ raw \in RawValues
    /\ entry \in FatEntries
    /\ fat_last = <<"init", "init">>

NextFat == FromU32 \/ ToU32

SpecFat == InitFat /\ [][NextFat]_vars

\* a volume built from a boot sector, and the calls made on it
InitVolume ==
    /\ InitBuild /\ IdleFile /\ IdleFat
    /\ sector \in BootSectors
    /\ volume = <<>>
    /\ vret = NoCall

NextVolume ==
    \/ \E d \in BlockDevices : VolumeNew(d)
    \/ VolumeBytesPerSector
    \/ VolumeSectorsPerCluster
    \/ VolumeBytesPerCluster
    \/ \E c \in Clusters : VolumeClusterToLba(c)
    \/ VolumeRootDirCluster

SpecVolume == InitVolume /\ [][NextVolume]_vars

\* a file handle, and the reads and seeks made on it
InitFile ==
    /\ InitBuild /\ IdleVolume /\ IdleFat
    /\ file = <<>>
    /\ fret = NoCall
    /\ calls = 0

NextFile ==
    \/ \E n \in FileNames, a \in FileAttributes, s \in FileSizes :
           FileNew(n, a, U32(2), s, Usize(0))
    \/ \E len \in BufferLens : FileRead(len)
    \/ \E pos \in SeekTargets : FileSeek(pos)

SpecFile == InitFile /\ [][NextFile]_vars

---------------------------------------------------------------------------
(* Properties *)

\* 2^k as an n-byte value, for k < 8 * n
ExactPow2(k, n) == Zeros(k \div 8) \o <<Pow2(k % 8)>> \o Zeros(n - 1 - (k \div 8))

\* C1: ExFatVolume::new fails with VOLUME_CORRUPTED, and builds no volume,
\* for every boot sector whose boot_signature is not 0xAA55 or whose fs_name
\* is not "EXFAT   ", and succeeds, keeping the boot sector as given, for
\* every boot sector that has both, whatever its other fields hold.
C1_NewChecksSignatureAndName ==
    vret.op = "new" =>
        IF sector.boot_signature = 43605 /\ sector.fs_name = <<69, 88, 70, 65, 84, 32, 32, 32>>
        THEN /\ vret.kind = "ok"
             /\ volume # <<>>
             /\ volume[1].boot_sector = sector
        ELSE /\ vret.kind = "err"
             /\ vret.status = "VOLUME_CORRUPTED"
             /\ volume = <<>>

\* a boot sector with the right signature and sane geometry is refused for
\* its name alone
C1_Witness ==
    /\ vret.op = "new"
    /\ vret.kind = "err"
    /\ sector.boot_signature = BOOT_SIGNATURE
    /\ sector.fs_name # EXFAT_NAME
    /\ sector.bytes_per_sector_shift = 9
    /\ sector.sectors_per_cluster_shift = 3

\* C2: a seek call with a target above size fails with INVALID_PARAMETER and
\* leaves the whole handle unchanged; a seek call with a target at or below
\* size succeeds and changes the handle's position, and nothing else, to the
\* target.
C2_SeekChecksTarget ==
    [][ fret'.op = "seek" /\ calls' = calls + 1 =>
            IF Gt(fret'.arg, file[1].size)
            THEN /\ fret'.kind = "err"
                 /\ fret'.status = "INVALID_PARAMETER"
                 /\ file' = file
            ELSE /\ fret'.kind = "ok"
                 /\ file' = <<[file[1] EXCEPT !.position = fret'.arg]>>
      ]_vars

\* a seek to exactly size on a non-empty file has succeeded
C2_Witness ==
    /\ fret.op = "seek"
    /\ fret.kind = "ok"
    /\ fret.arg = file[1].size
    /\ file[1].position = file[1].size
    /\ ~IsZero(file[1].size)

\* C3: a read call on a handle whose position equals size returns success
\* with count 0 and leaves the handle unchanged, whatever the buffer length.
C3_ReadAtEndReturnsZero ==
    [][ fret'.op = "read" /\ calls' = calls + 1 /\ file[1].position = file[1].size =>
            /\ fret'.kind = "ok"
            /\ IsZero(fret'.val)
            /\ file' = file
      ]_vars

\* a read with a non-empty buffer has returned 0 at the end of a non-empty file
C3_Witness ==
    /\ fret.op = "read"
    /\ fret.kind = "ok"
    /\ ~IsZero(fret.arg)
    /\ IsZero(fret.val)
    /\ file[1].position = file[1].size
    /\ ~IsZero(file[1].size)

\* C4: after construction and after every read and seek call, position is at
\* most size, and no call changes size, name, attributes or first_cluster.
C4_PositionWithinSize ==
    [][ file' # <<>> =>
            /\ Le(file'[1].position, file'[1].size)
            /\ file = <<>> => IsZero(file'[1].position)
            /\ file # <<>> =>
                   /\ file'[1].size = file[1].size
                   /\ file'[1].name = file[1].name
                   /\ file'[1].attributes = file[1].attributes
                   /\ file'[1].first_cluster = file[1].first_cluster
      ]_vars

\* the position of a non-empty file stands at its size after two or more calls,
\* the last of them a seek past the end that was refused
C4_Witness ==
    /\ calls >= 2
    /\ fret.op = "seek"
    /\ fret.kind = "err"
    /\ file[1].position = file[1].size
    /\ ~IsZero(file[1].size)

\* the entries from_u32 can return: Free, Bad, EndOfChain, and Next(c) for c
\* in 0x00000001 ..= 0xFFFFFFF6
Decodable(e) ==
    e.tag = "Next" => ~IsZero(e.cluster) /\ Lt(e.cluster, <<247, 255, 255, 255>>)

\* C5 (as amended): from_u32(to_u32(e)) = e for e one of Free, Bad,
\* EndOfChain, or Next(c) with 0x00000001 <= c <= 0xFFFFFFF6.
C5_RoundTripDecodable ==
    [][ fat_last[2] = "to_u32" /\ fat_last'[2] = "from_u32" /\ Decodable(entry) =>
            entry' = entry
      ]_vars

\* Next(0x00012345) has been encoded and decoded again
C5_Witness ==
    /\ fat_last = <<"to_u32", "from_u32">>
    /\ entry = [tag |-> "Next", cluster |-> <<69, 35, 1, 0>>]
    /\ raw = <<69, 35, 1, 0>>

\* C5 (as claimed): from_u32(to_u32(e)) = e for every FatEntry e, Next(c)
\* for every 32-bit c included.
C5_RoundTripEveryEntry ==
    [][ fat_last[2] = "to_u32" /\ fat_last'[2] = "from_u32" => entry' = entry ]_vars

\* C6 (as claimed): on every volume that new accepted, cluster_to_lba(2)
\* returns cluster_heap_offset, and for n >= 2 cluster_to_lba(n + 1) exceeds
\* cluster_to_lba(n) by sectors_per_cluster.
C6_ClusterToLbaLinear ==
    volume # <<>> /\ vret.op = "cluster_to_lba" =>
        /\ vret.arg = U32(2) =>
               /\ vret.kind = "ok"
               /\ vret.val = Extend(volume[1].boot_sector.cluster_heap_offset, U64_BYTES)
        /\ Ge(vret.arg, U32(2)) /\ vret.arg # <<255, 255, 255, 255>> =>
               LET following == cluster_to_lba(volume[1], Add(vret.arg, U32(1)).val)
                   spc       == sectors_per_cluster(volume[1].boot_sector)
               IN  /\ vret.kind = "ok"
                   /\ following.kind = "ok"
                   /\ spc.kind = "ok"
                   /\ Sub(following.val, vret.val).val = Extend(spc.val, U64_BYTES)

\* C7 (as claimed): on every valid boot sector bytes_per_sector() is
\* 2^bytes_per_sector_shift, sectors_per_cluster() is
\* 2^sectors_per_cluster_shift, and bytes_per_cluster() is their exact
\* product 2^(bytes_per_sector_shift + sectors_per_cluster_shift).
C7_GeometryExact ==
    volume # <<>> =>
        LET bs == volume[1].boot_sector
        IN  /\ vret.op = "bytes_per_sector" =>
                   /\ vret.kind = "ok"
                   /\ Extend(vret.val, 64) = ExactPow2(bs.bytes_per_sector_shift, 64)
            /\ vret.op = "sectors_per_cluster" =>
                   /\ vret.kind = "ok"
                   /\ Extend(vret.val, 64) = ExactPow2(bs.sectors_per_cluster_shift, 64)
            /\ vret.op = "bytes_per_cluster" =>
                   /\ vret.kind = "ok"
                   /\ Extend(vret.val, 64) =
                          ExactPow2(bs.bytes_per_sector_shift + bs.sectors_per_cluster_shift, 64)

\* C8: from_u32 classifies every raw value v: 0x00000000 is Free, 0xFFFFFFF7
\* is Bad, 0xFFFFFFF8 ..= 0xFFFFFFFF is EndOfChain, and every other v is
\* Next(v), the reserved value 1 included.
C8_FromU32Classifies ==
    fat_last[2] = "from_u32" =>
        /\ raw = <<0, 0, 0, 0>> => entry = [tag |-> "Free", cluster |-> <<>>]
        /\ raw = <<247, 255, 255, 255>> => entry = [tag |-> "Bad", cluster |-> <<>>]
        /\ (raw[1] >= 248 /\ raw[2] = 255 /\ raw[3] = 255 /\ raw[4] = 255) =>
               entry = [tag |-> "EndOfChain", cluster |-> <<>>]
        /\ (raw # <<0, 0, 0, 0>> /\ (raw[1] < 247 \/ raw[2] < 255 \/ raw[3] < 255 \/ raw[4] < 255)) =>
               entry = [tag |-> "Next", cluster |-> raw]

\* the reserved value 1 has been decoded, to Next(1)
C8_Witness ==
    /\ fat_last[2] = "from_u32"
    /\ raw = <<1, 0, 0, 0>>
    /\ entry.tag = "Next"

\* C9 (as claimed): cluster_to_lba returns no block address for cluster 0,
\* cluster 1 or a cluster above cluster_count + 1.
C9_OutOfRangeClusterRejected ==
    volume # <<>> /\ vret.op = "cluster_to_lba" =>
        LET last_cluster == Add(Extend(volume[1].boot_sector.cluster_count, U64_BYTES), U64(1)).val
        IN  (Lt(vret.arg, U32(2)) \/ Gt(Extend(vret.arg, U64_BYTES), last_cluster)) =>
                vret.kind # "ok"

\* C10 (as claimed): a read call on a handle with position <= size returns
\* min(buffer.len(), size - position) and advances position by that count.
C10_ReadCountExact ==
    [][ fret'.op = "read" /\ calls' = calls + 1 /\ Le(file[1].position, file[1].size) =>
            LET count == Min(Extend(fret'.arg, U64_BYTES),
                             Sub(file[1].size, file[1].position).val)
            IN  /\ fret'.kind = "ok"
                /\ Extend(fret'.val, U64_BYTES) = count
                /\ file'[1].position = Add(file[1].position, count).val
      ]_vars

====
